---------------------------- MODULE Spec2Model ----------------------------
(***************************************************************************)
(* The ArUco detection service (docker/aruco-service/app): the /detect     *)
(* handler of main.py, the GeoTIFF staging, loading and pixel-to-geo       *)
(* mapping of georef.py and the marker assembly of detector.py.            *)
(*                                                                         *)
(* Number representation.  Python floats are modelled in fixed point:      *)
(*   - corner pixels are whole pixels (the detector's contour corners),    *)
(*     pixel coordinates handed to pixel_to_coords are in quarter pixels   *)
(*     (the mean of four whole-pixel corners is exact in quarter pixels);  *)
(*   - geographic coordinates are in half units (rasterio's xy() adds the  *)
(*     half-pixel centre offset);                                          *)
(*   - angles are in microdegrees before rounding and in centidegrees      *)
(*     (2 decimal places) after round(rotation, 2).                        *)
(* calculate_confidence (sqrt/exp of the side lengths) is not modelled:    *)
(* the Marker record of the model carries no confidence field.             *)
(***************************************************************************)
EXTENDS Integers, Sequences, FiniteSets, TLC

VARIABLES
    \* ---- the /detect handler, one entry per concurrent run ----
    pc,          \* position of each run in detect_markers
    request,     \* DetectionRequest of each run
    temp_file,   \* detect_markers' local temp_file (NoFile = None)
    temp_path,   \* download_geotiff's local temp_path (NoFile before it is set)
    disk,        \* /tmp/aruco: path -> content of the file there, or Absent
    image,       \* result of load_geotiff_for_detection of each run
    response,    \* what the caller of each run receives
    stages,      \* history: the stages each run has executed for its request
    failed,      \* history: the stage of the run that raised ("none" if none)
    staged,      \* history: the bytes each run wrote to its staged file
    \* ---- load_geotiff_for_detection called on its own ----
    raster,      \* the dataset rasterio.open yields
    loaded,      \* what load_geotiff_for_detection returned or raised
    \* ---- detect_aruco_markers called on its own ----
    call,        \* its arguments and what cv2's detectMarkers answers
    returned     \* what detect_aruco_markers returned or raised

vars == <<pc, request, temp_file, temp_path, disk, image, response, stages,
          failed, staged, raster, loaded, call, returned>>

handlerVars == <<pc, request, temp_file, temp_path, disk, image, response,
                 stages, failed, staged>>
loaderVars == <<raster, loaded>>
detectVars == <<call, returned>>

----------------------------------------------------------------------------
(* Bounds of the model *)

\* number of concurrent /detect runs
NumRuns == 2
\* number of file names tempfile can hand out in /tmp/aruco
NumPaths == 2
\* longest list of detections the detector returns
MaxDetections == 3
\* largest marker identifier the detector returns
MaxId == 2
\* corner coordinates range over 0..MaxCoord and a few larger values
MaxCoord == 2
\* a corner coordinate far from the others (a top edge almost 180 degrees)
WideCoord == 12000
\* largest band count of a source raster
MaxBands == 4
\* pixels per band of a source raster
NumPixels == 1

----------------------------------------------------------------------------
(* Small helpers *)

Abs(n) == IF n < 0 THEN -n ELSE n

Max(a, b) == IF a >= b THEN a ELSE b

RECURSIVE SeqSum(_)
SeqSum(s) == IF s = <<>> THEN 0 ELSE Head(s) + SeqSum(Tail(s))

RECURSIVE SeqMax(_)
SeqMax(s) == IF Len(s) = 1 THEN Head(s) ELSE Max(Head(s), SeqMax(Tail(s)))

Range(s) == {s[i] : i \in DOMAIN s}

\* Python's int(x) of a float given in quarters: truncation towards zero
IntOfQuarters(q) == IF q >= 0 THEN q \div 4 ELSE -((-q) \div 4)

----------------------------------------------------------------------------
(* detector.py: the dictionary table *)

\* the keys of ARUCO_DICTIONARIES in insertion order
ARUCO_DICTIONARY_KEYS ==
    << "DICT_4X4_50", "DICT_4X4_100", "DICT_4X4_250", "DICT_4X4_1000",
       "DICT_5X5_50", "DICT_5X5_100", "DICT_5X5_250", "DICT_5X5_1000",
       "DICT_6X6_50", "DICT_6X6_100", "DICT_6X6_250", "DICT_6X6_1000",
       "DICT_7X7_50", "DICT_7X7_100", "DICT_7X7_250", "DICT_7X7_1000",
       "DICT_ARUCO_ORIGINAL" >>

\* name -> cv2.aruco constant (cv2 numbers its predefined dictionaries 0..16
\* in this order)
ARUCO_DICTIONARIES ==
    [name \in Range(ARUCO_DICTIONARY_KEYS) |->
        (CHOOSE i \in DOMAIN ARUCO_DICTIONARY_KEYS :
            ARUCO_DICTIONARY_KEYS[i] = name) - 1]

\* variant: an unknown name falls back to the default dictionary
get_aruco_dictionary_fallback(name) ==
    IF name \notin DOMAIN ARUCO_DICTIONARIES
    THEN [ok |-> TRUE, dictionary |-> ARUCO_DICTIONARIES["DICT_7X7_1000"]]
    ELSE [ok |-> TRUE, dictionary |-> ARUCO_DICTIONARIES[name]]

\* get_aruco_dictionary: the predefined dictionary, or the ValueError raised
get_aruco_dictionary(name) ==
    IF name \notin DOMAIN ARUCO_DICTIONARIES
    THEN [ok |-> FALSE,
          error |-> [type |-> "ValueError",
                     what |-> "Unknown ArUco dictionary",
                     value |-> name,
                     available |-> ARUCO_DICTIONARY_KEYS]]
    ELSE [ok |-> TRUE, dictionary |-> ARUCO_DICTIONARIES[name]]

----------------------------------------------------------------------------
(* georef.py: pixel_to_coords *)

\* rasterio.transform.xy(transform, row, col) with its default
\* offset="center": the affine transform applied to (col + 0.5, row + 0.5).
\* The result is in half units: <<2*x, 2*y>>.
xy(transform, row, col) ==
    << transform.a * (2 * col + 1) + transform.b * (2 * row + 1) + 2 * transform.c,
       transform.d * (2 * col + 1) + transform.e * (2 * row + 1) + 2 * transform.f >>

\* variant: the pixel coordinates rounded to the nearest integer
pixel_to_coords_rounding(transform, pixel_x, pixel_y) ==
    xy(transform, (pixel_y + 2) \div 4, (pixel_x + 2) \div 4)

\* pixel_to_coords: pixel_x, pixel_y in quarter pixels; <<lng, lat>> in halves
pixel_to_coords(transform, pixel_x, pixel_y) ==
    xy(transform, IntOfQuarters(pixel_y), IntOfQuarters(pixel_x))

----------------------------------------------------------------------------
(* detector.py: calculate_rotation *)

\* atan(2^-i) in microdegrees, i = 0..23
AtanTable ==
    << 45000000, 26565051, 14036243, 7125016, 3576334, 1789911, 895174,
       447614, 223811, 111906, 55953, 27976, 13988, 6994, 3497, 1749, 874,
       437, 219, 109, 55, 27, 14, 7 >>

RECURSIVE Pow2(_)
Pow2(i) == IF i = 0 THEN 1 ELSE 2 * Pow2(i - 1)

\* CORDIC vectoring: the angle of (x, y), x >= 0, accumulated in z
RECURSIVE Cordic(_, _, _, _)
Cordic(x, y, z, i) ==
    IF i = Len(AtanTable) THEN z
    ELSE IF y >= 0
         THEN Cordic(x + (y \div Pow2(i)), y - (x \div Pow2(i)),
                     z + AtanTable[i + 1], i + 1)
         ELSE Cordic(x - (y \div Pow2(i)), y + (x \div Pow2(i)),
                     z - AtanTable[i + 1], i + 1)

\* math.degrees(math.atan2(dy, dx)) in microdegrees (to about 1e-5 degree)
Atan2Degrees(dy, dx) ==
    IF dy = 0 THEN (IF dx >= 0 THEN 0 ELSE 180000000)
    ELSE IF dx = 0 THEN (IF dy > 0 THEN 90000000 ELSE -90000000)
    ELSE LET s == Pow2(28) \div Max(Abs(dx), Abs(dy))
             z == Cordic(Abs(dx) * s, dy * s, 0, 0)
         IN  IF dx >= 0 THEN z
             ELSE IF dy >= 0 THEN 180000000 - z
             ELSE -180000000 - z

\* variant: the angle normalised to [0, 360)
calculate_rotation_unsigned(corners) ==
    LET dx == corners[2][1] - corners[1][1]
        dy == corners[2][2] - corners[1][2]
        a == Atan2Degrees(dy, dx)
    IN  IF a < 0 THEN a + 360000000 ELSE a

\* calculate_rotation: angle of the top edge corners[0] -> corners[1]
calculate_rotation(corners) ==
    LET top_left == corners[1]
        top_right == corners[2]
        dx == top_right[1] - top_left[1]
        dy == top_right[2] - top_left[2]
    IN  Atan2Degrees(dy, dx)

\* round(x, 2): microdegrees to the nearest centidegree
Round2(u) ==
    IF u >= 0 THEN (u + 5000) \div 10000 ELSE -((-u + 5000) \div 10000)

----------------------------------------------------------------------------
(* detector.py: detect_aruco_markers *)

\* A detection is what detectMarkers yields for one marker:
\*   [marker_id |-> id, corners |-> <<p0, p1, p2, p3>>, nan |-> BOOLEAN]
\* with p = <<x, y>> in whole pixels; nan says the corner array holds NaN.

\* The dict built in the loop body for detection det (lines 161-193)
marker_record(transform, det) ==
    LET corner_pixels == det.corners
        center_x == SeqSum([i \in 1..4 |-> corner_pixels[i][1]])
        center_y == SeqSum([i \in 1..4 |-> corner_pixels[i][2]])
        center == pixel_to_coords(transform, center_x, center_y)
        corner_coords ==
            [i \in 1..4 |->
                LET c == pixel_to_coords(transform, 4 * corner_pixels[i][1],
                                         4 * corner_pixels[i][2])
                IN  <<c[2], c[1]>>]
        rotation == calculate_rotation(corner_pixels)
    IN  [marker_id |-> det.marker_id,
         latitude |-> center[2],
         longitude |-> center[1],
         pixel_x |-> IntOfQuarters(center_x),
         pixel_y |-> IntOfQuarters(center_y),
         corner_pixels |-> corner_pixels,
         corner_coords |-> corner_coords,
         rotation_deg |-> Round2(rotation)]

\* The loop over ids (lines 157-193): int() of a NaN coordinate raises
\* ValueError, which leaves the loop and the function.
assemble_markers(transform, detections) ==
    IF \E i \in DOMAIN detections : detections[i].nan
    THEN [ok |-> FALSE,
          error |-> [type |-> "ValueError",
                     what |-> "cannot convert float NaN to integer"]]
    ELSE [ok |-> TRUE,
          markers |-> [i \in DOMAIN detections |->
                          marker_record(transform, detections[i])]]

\* list.sort places an element after those already there with an equal key
InsertByMarkerId(m, sorted) ==
    LET before == {i \in DOMAIN sorted : sorted[i].marker_id <= m.marker_id}
        k == Cardinality(before)
    IN  SubSeq(sorted, 1, k) \o <<m>> \o SubSeq(sorted, k + 1, Len(sorted))

RECURSIVE StableSort(_)
StableSort(markers) ==
    IF markers = <<>> THEN <<>>
    ELSE InsertByMarkerId(markers[Len(markers)],
                          StableSort(SubSeq(markers, 1, Len(markers) - 1)))

\* variant: a sort that places an element before those with an equal key
InsertBeforeEqual(m, sorted) ==
    LET before == {i \in DOMAIN sorted : sorted[i].marker_id < m.marker_id}
        k == Cardinality(before)
    IN  SubSeq(sorted, 1, k) \o <<m>> \o SubSeq(sorted, k + 1, Len(sorted))

RECURSIVE UnstableSort(_)
UnstableSort(markers) ==
    IF markers = <<>> THEN <<>>
    ELSE InsertBeforeEqual(markers[Len(markers)],
                           UnstableSort(SubSeq(markers, 1, Len(markers) - 1)))

sort_by_marker_id_unstable(markers) == UnstableSort(markers)

\* variant: the list returned in the detector's order
sort_by_marker_id_skipped(markers) == markers

\* markers.sort(key=lambda m: m["marker_id"]) (line 196): a stable sort
sort_by_marker_id(markers) == StableSort(markers)

\* detect_aruco_markers.  detector is what cv2's detectMarkers does on the
\* image: [raises |-> BOOLEAN, detections |-> the markers it finds].
\* detector_called records whether detectMarkers was reached.
detect_aruco_markers(transform, dictionary_name, detector) ==
    LET aruco_dict == get_aruco_dictionary(dictionary_name)
        assembled == assemble_markers(transform, detector.detections)
    IN  IF ~aruco_dict.ok
        THEN [kind |-> "raised", error |-> aruco_dict.error,
              detector_called |-> FALSE]
        ELSE IF detector.raises
        THEN [kind |-> "raised", error |-> [type |-> "cv2.error", what |-> "detectMarkers failed"],
              detector_called |-> TRUE]
        ELSE IF ~assembled.ok
        THEN [kind |-> "raised", error |-> assembled.error,
              detector_called |-> TRUE]
        ELSE [kind |-> "returned",
              markers |-> sort_by_marker_id(assembled.markers),
              dictionary |-> aruco_dict.dictionary,
              detector_called |-> TRUE]

----------------------------------------------------------------------------
(* georef.py: load_geotiff_for_detection *)

\* A dataset is what rasterio.open yields:
\*   [count |-> bands, dtype |-> "uint8" | "uint16",
\*    bands |-> <<band 1, ..., band count>>, transform |-> ..., crs |-> ...]
\* each band a sequence of NumPixels pixel values (the H x W grid, flattened).

\* src.read([1, 2, 3]) and np.transpose: one <<r, g, b>> per pixel
read_rgb(src) ==
    [p \in 1..NumPixels |-> <<src.bands[1][p], src.bands[2][p], src.bands[3][p]>>]

\* src.read(1) and np.stack([img, img, img], axis=-1)
read_gray(src) ==
    [p \in 1..NumPixels |-> <<src.bands[1][p], src.bands[1][p], src.bands[1][p]>>]

\* img.max(): the largest value over all pixels and channels
image_max(img) ==
    SeqMax([p \in DOMAIN img |-> SeqMax(img[p])])

\* (img / img.max() * 255).astype(np.uint8): for the integer pixel values of
\* the model the float64 quotient truncates to floor(255 * v / max)
scale_to_max(img) ==
    [p \in DOMAIN img |->
        [ch \in DOMAIN img[p] |-> (img[p][ch] * 255) \div image_max(img)]]

\* img.astype(np.uint8) of non-negative integers: the low 8 bits
astype_uint8(img) ==
    [p \in DOMAIN img |-> [ch \in DOMAIN img[p] |-> img[p][ch] % 256]]

\* variant: every image that is not uint8 is rescaled to its maximum
ensure_uint8_always_scaling(dtype, img) ==
    IF dtype # "uint8"
    THEN (IF image_max(img) > 0 THEN scale_to_max(img) ELSE astype_uint8(img))
    ELSE img

\* lines 95-101: "Ensure uint8 for OpenCV"
ensure_uint8(dtype, img) ==
    IF dtype # "uint8"
    THEN (IF image_max(img) > 255 THEN scale_to_max(img) ELSE astype_uint8(img))
    ELSE img

\* variant: only exactly three bands are read as RGB
read_bands_rgb_only(src) ==
    IF src.count = 3 THEN [ok |-> TRUE, img |-> read_rgb(src)]
    ELSE IF src.count = 1 THEN [ok |-> TRUE, img |-> read_gray(src)]
    ELSE [ok |-> FALSE]

\* lines 84-93: the band count decides what is read
read_bands(src) ==
    IF src.count >= 3 THEN [ok |-> TRUE, img |-> read_rgb(src)]
    ELSE IF src.count = 1 THEN [ok |-> TRUE, img |-> read_gray(src)]
    ELSE [ok |-> FALSE]

\* load_geotiff_for_detection on an opened dataset
load_dataset(src) ==
    LET read == read_bands(src)
    IN  IF ~read.ok
        THEN [kind |-> "raised",
              error |-> [type |-> "ValueError",
                         what |-> "Unexpected band count",
                         value |-> src.count]]
        ELSE [kind |-> "returned",
              img |-> ensure_uint8(src.dtype, read.img),
              transform |-> src.transform,
              crs |-> src.crs]

----------------------------------------------------------------------------
(* The inputs the calls are made with *)

\* identity: pixel size 1, no rotation, origin (0, 0)
IdentityTransform == [a |-> 1, b |-> 0, c |-> 0, d |-> 0, e |-> 1, f |-> 0]

\* north-up raster: pixel size 2, origin (10, 500), rows running south
NorthUpTransform == [a |-> 2, b |-> 0, c |-> 10, d |-> 0, e |-> -2, f |-> 500]

\* a rotated raster
RotatedTransform == [a |-> 1, b |-> 1, c |-> -3, d |-> 1, e |-> -1, f |-> 7]

Transforms == {IdentityTransform, NorthUpTransform, RotatedTransform}

\* pixel values a band of the given datatype holds
PixelLevels(dtype) ==
    IF dtype = "uint8" THEN {0, 100, 255} ELSE {0, 100, 255, 256, 1020}

Dtypes == {"uint8", "uint16"}

\* the band arrays of a dataset with n bands: bands 1..3 are those of rgb;
\* the bands beyond the third (alpha) are never read and are opaque
BandArrays(n, rgb) ==
    [i \in 1..n |-> IF i <= 3 THEN rgb[i] ELSE [p \in 1..NumPixels |-> 255]]

Dataset(n, dtype, bands) ==
    [count |-> n, dtype |-> dtype, bands |-> bands,
     transform |-> NorthUpTransform, crs |-> "EPSG:4326"]

\* names a request may carry: the table's keys and some that are not
RequestedNames ==
    Range(ARUCO_DICTIONARY_KEYS) \cup
        {"DICT_8X8_50", "DICT_4X4_500", "dict_4x4_50", "DICT_7X7", ""}

CoordValues == (0..MaxCoord) \cup {100, 120, WideCoord}

\* a quadrilateral with top edge p0 -> p1 and sides of 20 pixels
Quad(p0, p1) == <<p0, p1, <<p1[1], p1[2] + 20>>, <<p0[1], p0[2] + 20>>>>

Quads ==
    {Quad(<<x0, y0>>, <<x1, y1>>) :
        x0 \in CoordValues, y0 \in CoordValues,
        x1 \in CoordValues, y1 \in CoordValues}

\* the square of the end-to-end example, and a tilted quadrilateral
SquareQuad == Quad(<<100, 100>>, <<120, 100>>)

TiltedQuad == Quad(<<0, 2>>, <<1, 0>>)

Detection(id, q) == [marker_id |-> id, corners |-> q, nan |-> FALSE]

NanDetection(id) == [marker_id |-> id, corners |-> SquareQuad, nan |-> TRUE]

SeqsUpTo(S, n) == UNION {[1..k -> S] : k \in 0..n}

\* what detectMarkers may answer
DetectorAnswers ==
    {[raises |-> FALSE, detections |-> ds] :
        ds \in SeqsUpTo({Detection(id, q) : id \in 0..MaxId,
                                            q \in {SquareQuad, TiltedQuad}},
                        MaxDetections)}
    \cup {[raises |-> FALSE, detections |-> <<Detection(0, q)>>] : q \in Quads}
    \cup {[raises |-> FALSE, detections |-> ds] :
            ds \in SeqsUpTo({Detection(1, SquareQuad), NanDetection(0)}, 2)}
    \cup {[raises |-> TRUE, detections |-> <<>>]}

TwoMarkers ==
    [raises |-> FALSE,
     detections |-> <<Detection(2, SquareQuad), Detection(0, TiltedQuad)>>]

Calls ==
    {[dictionary_name |-> n, transform |-> IdentityTransform,
      detector |-> TwoMarkers] : n \in RequestedNames}
    \cup {[dictionary_name |-> "DICT_7X7_1000", transform |-> t, detector |-> d] :
            t \in Transforms, d \in DetectorAnswers}

----------------------------------------------------------------------------
(* main.py and georef.py: the /detect handler and the staged file *)

Runs == 1..NumRuns

Paths == 1..NumPaths

\* temp_file = None
NoFile == 0

Absent == [kind |-> "absent"]

\* the file NamedTemporaryFile has created and closed: no bytes yet
EmptyFile == [kind |-> "empty"]

Live == {"create", "get", "load", "detect", "finally"}

\* what the URL may serve: bytes that are no raster, or a GeoTIFF
HandlerDatasets ==
    { Dataset(2, "uint8", [i \in 1..2 |-> [p \in 1..NumPixels |-> 100]]),
      Dataset(3, "uint8", [i \in 1..3 |-> [p \in 1..NumPixels |-> 255]]) }

ServedFiles ==
    {[kind |-> "garbage"]} \cup
        {[kind |-> "geotiff", dataset |-> d] : d \in HandlerDatasets}

HandlerDetectorAnswers ==
    { TwoMarkers,
      [raises |-> FALSE,
       detections |-> <<Detection(1, SquareQuad), NanDetection(0)>>],
      [raises |-> TRUE, detections |-> <<>>] }

Requests ==
    {[geotiff_url |-> "https://maps.example/ortho.tif", dictionary |-> n] :
        n \in {"DICT_7X7_1000", "DICT_8X8_50"}}

NoRequest == [geotiff_url |-> "", dictionary |-> ""]

NoImage == [kind |-> "none"]

NoResponse == [kind |-> "none"]

\* variant: a file name that may already be in use
any_path(files) == Paths

\* the names NamedTemporaryFile(delete=False, dir=temp_dir) can create: it
\* opens with O_EXCL, so only a name with no file there
fresh_paths(files) == {p \in Paths : files[p] = Absent}

\* load_geotiff_for_detection(file_path): rasterio.open raises unless the
\* file holds a raster
load_geotiff_for_detection(files, file_path) ==
    IF files[file_path].kind # "geotiff"
    THEN [kind |-> "raised", error |-> [type |-> "RasterioIOError", what |-> "not a raster"]]
    ELSE load_dataset(files[file_path].dataset)

\* cleanup_temp_file: the file is removed if it exists (os.remove is taken
\* to succeed on a file that exists; the code swallows its exceptions)
cleanup_temp_file(files, file_path) ==
    IF files[file_path] # Absent
    THEN [files EXCEPT ![file_path] = Absent]
    ELSE files

\* variant: the exception swallowed into an empty success response
success_without_markers(req, e) ==
    [success |-> TRUE, marker_count |-> 0, markers |-> <<>>,
     dictionary |-> req.dictionary, geotiff_url |-> req.geotiff_url]

\* the except clause: HTTPException(status_code=500, detail=...)
http_exception(req, e) ==
    [status_code |-> 500, detail |-> [what |-> "Detection failed", error |-> e]]

\* DetectionResponse(success=True, ...)
detection_response(req, markers) ==
    [success |-> TRUE, marker_count |-> Len(markers), markers |-> markers,
     dictionary |-> req.dictionary, geotiff_url |-> req.geotiff_url]

\* an exception leaves the try block: the except clause builds the response
\* and the finally clause is next
Raise(r, stage, e) ==
    /\ failed' = [failed EXCEPT ![r] = stage]
    /\ response' = [response EXCEPT ![r] = http_exception(request[r], e)]
    /\ pc' = [pc EXCEPT ![r] = "finally"]

\* POST /detect arrives (line 78: temp_file = None)
Receive(r) ==
    /\ pc[r] \in {"idle", "done"}
    /\ \E req \in Requests : request' = [request EXCEPT ![r] = req]
    /\ pc' = [pc EXCEPT ![r] = "create"]
    /\ response' = [response EXCEPT ![r] = NoResponse]
    /\ stages' = [stages EXCEPT ![r] = <<>>]
    /\ failed' = [failed EXCEPT ![r] = "none"]
    /\ UNCHANGED <<temp_file, temp_path, image, staged, disk, loaderVars,
                   detectVars>>

\* download_geotiff, lines 22-33: the temporary file is created
CreateTempFile(r) ==
    /\ pc[r] = "create"
    /\ stages' = [stages EXCEPT ![r] = Append(@, "download")]
    /\ \/ /\ \E p \in fresh_paths(disk) :
               /\ disk' = [disk EXCEPT ![p] = EmptyFile]
               /\ temp_path' = [temp_path EXCEPT ![r] = p]
          /\ pc' = [pc EXCEPT ![r] = "get"]
          /\ UNCHANGED <<failed, response>>
       \/ /\ fresh_paths(disk) = {}
          /\ Raise(r, "download", [type |-> "FileExistsError",
                                   what |-> "no usable temporary file name"])
          /\ UNCHANGED <<disk, temp_path>>
    /\ UNCHANGED <<request, temp_file, image, staged, loaderVars, detectVars>>

\* download_geotiff, lines 35-43: the GET, raise_for_status, the write
Download(r) ==
    /\ pc[r] = "get"
    /\ \/ /\ \E content \in ServedFiles :
               /\ disk' = [disk EXCEPT ![temp_path[r]] = content]
               /\ staged' = [staged EXCEPT ![r] = content]
          /\ temp_file' = [temp_file EXCEPT ![r] = temp_path[r]]
          /\ pc' = [pc EXCEPT ![r] = "load"]
          /\ UNCHANGED <<failed, response>>
       \/ /\ Raise(r, "download", [type |-> "HTTPStatusError",
                                   what |-> "GET failed"])
          /\ UNCHANGED <<disk, staged, temp_file>>
    /\ UNCHANGED <<request, temp_path, image, stages, loaderVars, detectVars>>

\* line 91: load_geotiff_for_detection(temp_file)
Load(r) ==
    /\ pc[r] = "load"
    /\ stages' = [stages EXCEPT ![r] = Append(@, "load")]
    /\ LET result == load_geotiff_for_detection(disk, temp_file[r])
       IN  \/ /\ result.kind = "returned"
              /\ image' = [image EXCEPT ![r] = result]
              /\ pc' = [pc EXCEPT ![r] = "detect"]
              /\ UNCHANGED <<failed, response>>
           \/ /\ result.kind = "raised"
              /\ Raise(r, "load", result.error)
              /\ UNCHANGED image
    /\ UNCHANGED <<request, temp_file, temp_path, disk, staged, loaderVars,
                   detectVars>>

\* lines 96-112: detect_aruco_markers and the DetectionResponse
Detect(r) ==
    /\ pc[r] = "detect"
    /\ stages' = [stages EXCEPT ![r] = Append(@, "detect")]
    /\ \E detector \in HandlerDetectorAnswers :
          LET result == detect_aruco_markers(image[r].transform,
                                             request[r].dictionary, detector)
          IN  \/ /\ result.kind = "returned"
                 /\ response' = [response EXCEPT ![r] =
                                   detection_response(request[r], result.markers)]
                 /\ pc' = [pc EXCEPT ![r] = "finally"]
                 /\ UNCHANGED failed
              \/ /\ result.kind = "raised"
                 /\ Raise(r, "detect", result.error)
    /\ UNCHANGED <<request, temp_file, temp_path, disk, image, staged,
                   loaderVars, detectVars>>

\* lines 121-125: the finally clause; then the response goes out and the
\* handler's locals are gone
Finally(r) ==
    /\ pc[r] = "finally"
    /\ \/ /\ temp_file[r] # NoFile
          /\ disk' = cleanup_temp_file(disk, temp_file[r])
       \/ /\ temp_file[r] = NoFile
          /\ UNCHANGED disk
    /\ pc' = [pc EXCEPT ![r] = "done"]
    /\ temp_file' = [temp_file EXCEPT ![r] = NoFile]
    /\ temp_path' = [temp_path EXCEPT ![r] = NoFile]
    /\ image' = [image EXCEPT ![r] = NoImage]
    /\ staged' = [staged EXCEPT ![r] = Absent]
    /\ UNCHANGED <<request, response, stages, failed, loaderVars, detectVars>>

----------------------------------------------------------------------------
(* The calls of the loader and of detect_aruco_markers on their own *)

Pending == [kind |-> "pending"]

NoCall == [kind |-> "none"]

CallLoad ==
    /\ loaded = Pending
    /\ loaded' = load_dataset(raster)
    /\ UNCHANGED <<raster, handlerVars, detectVars>>

CallDetect ==
    /\ returned = Pending
    /\ returned' = detect_aruco_markers(call.transform, call.dictionary_name,
                                        call.detector)
    /\ UNCHANGED <<call, handlerVars, loaderVars>>

----------------------------------------------------------------------------
(* Specifications *)

HandlerIdle ==
    /\ pc = [r \in Runs |-> "idle"]
    /\ request = [r \in Runs |-> NoRequest]
    /\ temp_file = [r \in Runs |-> NoFile]
    /\ temp_path = [r \in Runs |-> NoFile]
    /\ disk = [p \in Paths |-> Absent]
    /\ image = [r \in Runs |-> NoImage]
    /\ response = [r \in Runs |-> NoResponse]
    /\ stages = [r \in Runs |-> <<>>]
    /\ failed = [r \in Runs |-> "none"]
    /\ staged = [r \in Runs |-> Absent]

\* the service with NumRuns concurrent /detect runs
Init ==
    /\ HandlerIdle
    /\ raster = NoCall /\ loaded = NoCall
    /\ call = NoCall /\ returned = NoCall

Next ==
    \E r \in Runs :
        \/ Receive(r)
        \/ CreateTempFile(r)
        \/ Download(r)
        \/ Load(r)
        \/ Detect(r)
        \/ Finally(r)

Spec == Init /\ [][Next]_vars

\* load_geotiff_for_detection applied to every dataset of 0..MaxBands bands
\* of NumPixels pixels
InitLoad ==
    /\ HandlerIdle
    /\ \E n \in 0..MaxBands : \E t \in Dtypes :
          \E rgb \in [1..3 -> [1..NumPixels -> PixelLevels(t)]] :
              raster = Dataset(n, t, BandArrays(n, rgb))
    /\ loaded = Pending
    /\ call = NoCall /\ returned = NoCall

NextLoad == CallLoad

SpecLoad == InitLoad /\ [][NextLoad]_vars

\* detect_aruco_markers applied to every call of Calls
InitDetect ==
    /\ HandlerIdle
    /\ raster = NoCall /\ loaded = NoCall
    /\ call \in Calls /\ returned = Pending

NextDetect == CallDetect

SpecDetect == InitDetect /\ [][NextDetect]_vars

----------------------------------------------------------------------------
(* Claims about detect_aruco_markers, under SpecDetect *)

Returned == returned.kind = "returned"

\* C2: whatever the order of the detector's detections, the list that
\* detect_aruco_markers returns is ascending in marker_id: each record's
\* marker_id is at most that of the record after it.
C2_SortedAscending ==
    Returned =>
        \A i \in 1..(Len(returned.markers) - 1) :
            returned.markers[i].marker_id <= returned.markers[i + 1].marker_id

\* a returned list of three whose detections came out of order
C2_Witness ==
    /\ Returned
    /\ Len(returned.markers) = 3
    /\ \E i \in 1..2 :
          call.detector.detections[i].marker_id >
              call.detector.detections[i + 1].marker_id

\* the records of ms with marker_id id, in their order in ms
WithId(ms, id) ==
    LET HasId(m) == m.marker_id = id
    IN  SelectSeq(ms, HasId)

\* C10: the returned list is the stable sort by marker_id of the detector's
\* output: one Marker per detection (same length, duplicates neither merged
\* nor dropped), ascending, and for every identifier the Markers with it are
\* the records assembled from the detections with it, in the detector's order.
C10_StableSortOfDetections ==
    Returned =>
        LET ds == call.detector.detections
            ms == returned.markers
            n == Len(ds)
            records == [i \in 1..n |-> marker_record(call.transform, ds[i])]
        IN  /\ Len(ms) = n
            /\ \A i \in 1..(n - 1) : ms[i].marker_id <= ms[i + 1].marker_id
            /\ \A id \in {ms[i].marker_id : i \in 1..Len(ms)}
                         \cup {ds[i].marker_id : i \in 1..n} :
                  WithId(ms, id) = WithId(records, id)

\* two detections with the same identifier and different corners, then a
\* smaller identifier
C10_Witness ==
    /\ Returned
    /\ LET ds == call.detector.detections
       IN  /\ Len(ds) = 3
           /\ ds[1].marker_id = ds[2].marker_id
           /\ ds[1].corners # ds[2].corners
           /\ ds[3].marker_id < ds[1].marker_id
    /\ Len(returned.markers) = 3

\* C8 as claimed: the rotation of the top edge, and the rotation_deg stored
\* after rounding to 2 decimals, is greater than -180 and at most 180.
C8_RotationHalfOpen ==
    Returned =>
        \A i \in DOMAIN returned.markers :
            LET m == returned.markers[i]
            IN  /\ calculate_rotation(m.corner_pixels) > -180000000
                /\ calculate_rotation(m.corner_pixels) <= 180000000
                /\ m.rotation_deg > -18000
                /\ m.rotation_deg <= 18000

\* C8 amended: the rotation and the stored rotation_deg lie in the closed
\* range [-180, 180]; rotation_deg is -180.00 only for a top edge whose
\* angle is below -179.995 and rounds to it.
C8_RotationClosedRange ==
    Returned =>
        \A i \in DOMAIN returned.markers :
            LET m == returned.markers[i]
                angle == calculate_rotation(m.corner_pixels)
            IN  /\ angle >= -180000000 /\ angle <= 180000000
                /\ m.rotation_deg >= -18000 /\ m.rotation_deg <= 18000
                /\ m.rotation_deg = -18000 => angle <= -179995000
                /\ Abs(angle - 10000 * m.rotation_deg) <= 5000

\* a marker whose top edge runs left and one pixel up over WideCoord pixels
C8_Witness ==
    /\ Returned
    /\ \E i \in DOMAIN returned.markers :
          LET m == returned.markers[i]
          IN  /\ m.rotation_deg = -18000
              /\ m.corner_pixels[2][1] - m.corner_pixels[1][1] = -WideCoord
              /\ m.corner_pixels[2][2] - m.corner_pixels[1][2] = -1

\* the affine map of (col, row), without pixel offset, in half units
AffineAt(t, col, row) ==
    << 2 * (t.a * col + t.b * row + t.c), 2 * (t.d * col + t.e * row + t.f) >>

\* the affine map of the centre (col + 0.5, row + 0.5), in half units
AffineAtCentre(t, col, row) ==
    << t.a * (2 * col + 1) + t.b * (2 * row + 1) + 2 * t.c,
       t.d * (2 * col + 1) + t.e * (2 * row + 1) + 2 * t.f >>

\* the quarter-pixel points pixel_to_coords is called with for a marker, each
\* with the <<lng, lat>> the record holds for it
MappedPoints(m) ==
    { << SeqSum([i \in 1..4 |-> m.corner_pixels[i][1]]),
         SeqSum([i \in 1..4 |-> m.corner_pixels[i][2]]),
         <<m.longitude, m.latitude>> >> }
    \cup { << 4 * m.corner_pixels[i][1], 4 * m.corner_pixels[i][2],
              <<m.corner_coords[i][2], m.corner_coords[i][1]>> >> : i \in 1..4 }

\* C4 as claimed: pixelToGeo returns (a*col + b*row + c, d*col + e*row + f)
\* with col, row the pixel coordinates rounded to the nearest integer; the
\* identity transform maps pixel (100, 100) to (100, 100).
C4_RoundedPixelMapping ==
    Returned =>
        \A i \in DOMAIN returned.markers :
            \A pt \in MappedPoints(returned.markers[i]) :
                pt[3] = AffineAt(call.transform, (pt[1] + 2) \div 4,
                                 (pt[2] + 2) \div 4)

\* C4 amended: pixelToGeo returns (a*(col+0.5) + b*(row+0.5) + c,
\* d*(col+0.5) + e*(row+0.5) + f), the position of the centre of the pixel
\* (col, row), where col and row are the pixel coordinates truncated to
\* integers; the identity transform maps pixel (100, 100) to (100.5, 100.5).
C4_TruncatedCentreMapping ==
    Returned =>
        \A i \in DOMAIN returned.markers :
            \A pt \in MappedPoints(returned.markers[i]) :
                /\ pt[3] = AffineAtCentre(call.transform, pt[1] \div 4, pt[2] \div 4)
                /\ (call.transform = IdentityTransform /\ pt[1] = 400 /\ pt[2] = 400)
                      => pt[3] = <<201, 201>>

\* the identity transform, a corner at pixel (100, 100) and a centre that
\* lies between pixels
C4_Witness ==
    /\ Returned
    /\ call.transform = IdentityTransform
    /\ \E i \in DOMAIN returned.markers :
          LET m == returned.markers[i]
          IN  /\ m.corner_pixels[1] = <<100, 100>>
              /\ m.corner_coords[1] = <<201, 201>>
              /\ SeqSum([k \in 1..4 |-> m.corner_pixels[k][1]]) % 4 >= 2

\* the 17 identifiers: cell grid x catalog size, and the original dictionary
SupportedNames ==
    {"DICT_" \o g \o "_" \o n :
        g \in {"4X4", "5X5", "6X6", "7X7"}, n \in {"50", "100", "250", "1000"}}
    \cup {"DICT_ARUCO_ORIGINAL"}

UnknownDictionary(res) ==
    /\ res.kind = "raised"
    /\ res.error.type = "ValueError"
    /\ res.error.what = "Unknown ArUco dictionary"

\* C5: a dictionary name resolves exactly when it is one of the 17 supported
\* identifiers; for any other name the call fails with the unknown-dictionary
\* error, which names the value and lists all 17 names, and the detector is
\* not run.
C5_DictionaryResolution ==
    returned # Pending =>
        /\ Cardinality(SupportedNames) = 17
        /\ UnknownDictionary(returned) <=> call.dictionary_name \notin SupportedNames
        /\ call.dictionary_name \in SupportedNames => returned.detector_called
        /\ UnknownDictionary(returned) =>
              /\ returned.error.value = call.dictionary_name
              /\ Len(returned.error.available) = 17
              /\ Range(returned.error.available) = SupportedNames
              /\ ~returned.detector_called

\* a name of the right shape that is in no catalog
C5_Witness ==
    /\ UnknownDictionary(returned)
    /\ call.dictionary_name = "DICT_4X4_500"
    /\ ~returned.detector_called

----------------------------------------------------------------------------
(* Claims about the raster loader, under SpecLoad *)

Loaded == loaded.kind = "returned"

\* the channels the loader reads, before the conversion to 8 bits
SourceImage(src) ==
    [p \in 1..NumPixels |->
        IF src.count = 1
        THEN <<src.bands[1][p], src.bands[1][p], src.bands[1][p]>>
        ELSE <<src.bands[1][p], src.bands[2][p], src.bands[3][p]>>]

SourceMax(src) ==
    CHOOSE v \in {SourceImage(src)[p][ch] : p \in 1..NumPixels, ch \in 1..3} :
        \A p \in 1..NumPixels : \A ch \in 1..3 : SourceImage(src)[p][ch] <= v

\* C6: the loader succeeds exactly when the band count is 1 or at least 3;
\* the image it returns has exactly 3 channels per pixel (the first three
\* bands, or the single band three times); any other band count fails with
\* the band-count error and no image.
C6_BandCount ==
    loaded # Pending =>
        /\ Loaded <=> (raster.count = 1 \/ raster.count >= 3)
        /\ Loaded =>
              /\ Len(loaded.img) = NumPixels
              /\ \A p \in 1..NumPixels :
                    /\ Len(loaded.img[p]) = 3
                    /\ raster.count = 1 =>
                          /\ loaded.img[p][1] = loaded.img[p][2]
                          /\ loaded.img[p][2] = loaded.img[p][3]
                    /\ raster.dtype = "uint8" => loaded.img[p] = SourceImage(raster)[p]
        /\ ~Loaded =>
              /\ loaded.kind = "raised"
              /\ loaded.error.what = "Unexpected band count"
              /\ loaded.error.value = raster.count
              /\ "img" \notin DOMAIN loaded

\* a raster with two bands is refused
C6_Witness ==
    /\ loaded.kind = "raised"
    /\ raster.count = 2

\* C9 as claimed: when the datatype is not 8-bit unsigned every pixel
\* becomes value / max * 255 truncated, for every observed maximum; 8-bit
\* unsigned pixels are returned unchanged.
C9_AlwaysRescaled ==
    Loaded =>
        \A p \in 1..NumPixels : \A ch \in 1..3 :
            IF raster.dtype # "uint8"
            THEN SourceMax(raster) > 0 =>
                    loaded.img[p][ch] =
                        (SourceImage(raster)[p][ch] * 255) \div SourceMax(raster)
            ELSE loaded.img[p][ch] = SourceImage(raster)[p][ch]

\* C9 amended: when the datatype is not 8-bit unsigned and the observed
\* maximum exceeds 255, every pixel becomes value / max * 255 truncated (the
\* maximum maps to 255); when the maximum is 255 or less the pixels are only
\* converted to 8-bit unsigned, their values unchanged; 8-bit unsigned
\* pixels are returned unchanged.
C9_RescaledAbove255 ==
    Loaded =>
        \A p \in 1..NumPixels : \A ch \in 1..3 :
            IF raster.dtype # "uint8" /\ SourceMax(raster) > 255
            THEN /\ loaded.img[p][ch] =
                        (SourceImage(raster)[p][ch] * 255) \div SourceMax(raster)
                 /\ SourceImage(raster)[p][ch] = SourceMax(raster)
                        => loaded.img[p][ch] = 255
            ELSE loaded.img[p][ch] = SourceImage(raster)[p][ch]

\* a 16-bit raster whose brightest pixel is 100: returned as it is
C9_Witness ==
    /\ Loaded
    /\ raster.dtype = "uint16"
    /\ SourceMax(raster) = 100
    /\ \E p \in 1..NumPixels : \E ch \in 1..3 : loaded.img[p][ch] = 100

----------------------------------------------------------------------------
(* Claims about the /detect handler, under Spec *)

\* C1: when a run ends, on whatever path, the file it staged on disk has
\* been deleted.
C1_StagedFileDeleted ==
    [][\A r \in Runs :
          (pc[r] = "finally" /\ pc'[r] = "done" /\ temp_path[r] # NoFile)
              => disk'[temp_path[r]] = Absent]_vars

IsFailure(resp) ==
    /\ "status_code" \in DOMAIN resp
    /\ resp.status_code = 500
    /\ "success" \notin DOMAIN resp
    /\ "markers" \notin DOMAIN resp

IsPrefix(s, t) == Len(s) <= Len(t) /\ \A i \in 1..Len(s) : s[i] = t[i]

\* C3: a run in which a stage raised ends in a failure that carries no
\* Marker records, never a success response or a partial list; the failed
\* stage is the last one the run executes, and no stage runs twice.
C3_FailureCarriesNoMarkers ==
    \A r \in Runs :
        /\ IsPrefix(stages[r], <<"download", "load", "detect">>)
        /\ failed[r] # "none" =>
              /\ pc[r] \in {"finally", "done"}
              /\ IsFailure(response[r])
              /\ stages[r] # <<>>
              /\ stages[r][Len(stages[r])] = failed[r]

\* a run that ended because one of two detections could not be mapped
C3_Witness ==
    \E r \in Runs :
        /\ pc[r] = "done"
        /\ failed[r] = "detect"
        /\ IsFailure(response[r])
        /\ response[r].detail.error.what = "cannot convert float NaN to integer"

\* C7: every staged file has one owner: live runs hold different paths, a
\* run loads and deletes only the path it staged, and from its load step to
\* its end that file is on disk with the bytes the run wrote.
C7_StagedFileOwnership ==
    \A r \in Runs :
        /\ \A q \in Runs :
              (q # r /\ pc[r] \in Live /\ pc[q] \in Live /\ temp_path[r] # NoFile)
                  => temp_path[q] # temp_path[r]
        /\ temp_file[r] # NoFile => temp_file[r] = temp_path[r]
        /\ pc[r] = "get" => disk[temp_path[r]] # Absent
        /\ (pc[r] \in {"load", "detect", "finally"} /\ temp_file[r] # NoFile) =>
              /\ staged[r] # Absent
              /\ disk[temp_file[r]] = staged[r]

\* two runs with a staged file each, one loading and one detecting
C7_Witness ==
    \E r \in Runs : \E q \in Runs :
        /\ pc[r] = "detect" /\ pc[q] = "load"
        /\ temp_file[r] # NoFile /\ temp_file[q] # NoFile
        /\ temp_file[r] # temp_file[q]
        /\ disk[temp_file[r]] = staged[r] /\ disk[temp_file[q]] = staged[q]

============================================================================
